---- MODULE Spec2Model ----
(***************************************************************************)
(* Piece table text buffer (src/piece_table.c): the piece chain, the two   *)
(* content buffers and the command ("memsafe") undo/redo journal.          *)
(*                                                                         *)
(* Pieces live in a heap: heap[id] is the piece allocated id-th, NULL (0)  *)
(* is the null pointer.  Offsets are the zero-based offsets of the C code. *)
(* A C string is a sequence of non-NUL bytes; a buffer of k content bytes  *)
(* is followed by its terminator, so reading offset k yields NUL and       *)
(* reading past it yields whatever the heap holds there (wild).            *)
(***************************************************************************)
EXTENDS Integers, Sequences, FiniteSets, TLC

NULL == 0
NUL == 0
NL == 10

\* Bounds of the exploration: the calls made after construction (Spec and
\* SpecDeep), the longest range a remove, replace or slice is asked for, and
\* the highest line number asked for.
MaxOps == 2
MaxDeep == 3
MaxLen == 2
MaxLine == 3
\* Calls made after construction when sessions are explored.
MaxSession == 4
\* Longest string a table is constructed from when constructors are explored.
MaxString == 3

\* A char* that is NULL (no sequence of bytes has a negative element).
NoString == <<-1>>

\* Documents handed to piece_table_from_string, and texts handed to edits.
InitDocs == {<<1, 2, 3>>, <<1, NL>>}
Texts == {<<2>>, <<3, 1>>}
\* What a byte past a buffer's terminator may hold.
WildBytes == {NUL, 3}

VARIABLES
  original_buffer,          \* content bytes of table->original_buffer
  add_buffer,               \* content bytes of table->add_buffer
  heap,                     \* every piece ever allocated, by id
  pieces_head,              \* table->pieces_head
  freed,                    \* ids handed to free()
  undo_stack_top,           \* pointer journal (operation records), top first
  redo_stack_top,
  memsafe_undo_stack_top,   \* command journal (memsafe_operation), top first
  memsafe_redo_stack_top,
  piece_with_micro_inserts, \* the anchor piece of the open session, or NULL
  undo_with_micro_inserts,  \* the session's pending record: <<>> (NULL) or <<op>>
  crashed,                  \* the process died on a null dereference
  wild,                     \* the byte found past a terminator
  calls,                    \* ghost: the public calls made so far and what they returned
  budget,                   \* ghost: how many calls this run makes after construction
  answer                    \* what the last query returned to its caller

vars == <<original_buffer, add_buffer, heap, pieces_head, freed, undo_stack_top,
          redo_stack_top, memsafe_undo_stack_top, memsafe_redo_stack_top,
          piece_with_micro_inserts, undo_with_micro_inserts, crashed, wild, calls,
          budget, answer>>

\* The piece_table struct as one value, so that the C functions are operators
\* from a table to a table.
Table ==
  [original_buffer |-> original_buffer, add_buffer |-> add_buffer, heap |-> heap,
   pieces_head |-> pieces_head, freed |-> freed,
   undo_stack_top |-> undo_stack_top, redo_stack_top |-> redo_stack_top,
   memsafe_undo_stack_top |-> memsafe_undo_stack_top,
   memsafe_redo_stack_top |-> memsafe_redo_stack_top,
   piece_with_micro_inserts |-> piece_with_micro_inserts,
   undo_with_micro_inserts |-> undo_with_micro_inserts,
   crashed |-> crashed, wild |-> wild]

\* What a function hands back: the table it leaves and its return value.
Ret(t, ret) == [t |-> t, ret |-> ret]
\* A null dereference: the process dies inside the call.
Crash(t) == [t |-> [t EXCEPT !.crashed = TRUE], ret |-> FALSE]

----------------------------------------------------------------------------
(* Bytes and strings *)

RECURSIVE CStr(_)
\* The C string starting at a byte array: the bytes before the first NUL.
CStr(s) == IF s = <<>> \/ Head(s) = NUL THEN <<>> ELSE <<Head(s)>> \o CStr(Tail(s))

strlen(s) == Len(CStr(s))

BufferOf(t, b) == IF b = "ORIGINAL" THEN t.original_buffer ELSE t.add_buffer

\* buffer[i] as the process reads it.
ReadByte(t, b, i) ==
  LET s == BufferOf(t, b)
  IN  IF i < Len(s) THEN s[i + 1] ELSE IF i = Len(s) THEN NUL ELSE t.wild

\* memcpy(dst, buffer + from, n)
ReadBytes(t, b, from, n) == [k \in 1..n |-> ReadByte(t, b, from + k - 1)]

----------------------------------------------------------------------------
(* Pieces *)

piece_new(t, buffer, start_position, length) ==
  [t EXCEPT !.heap = Append(@, [buffer |-> buffer, start_position |-> start_position,
                                length |-> length, next |-> NULL])]

\* The id piece_new hands out next.
NewId(t) == Len(t.heap) + 1

insert_piece_after(h, p, after) ==
  [h EXCEPT ![p].next = h[after].next, ![after].next = p]

split_piece_at(t, p, offset) ==
  IF p = NULL \/ offset = 0
  THEN Ret(t, FALSE)
  ELSE LET n  == NewId(t)
           t1 == piece_new(t, t.heap[p].buffer, offset,
                           t.heap[p].length - offset + 1)
           h2 == insert_piece_after(t1.heap, n, p)
       IN  Ret([t1 EXCEPT !.heap = [h2 EXCEPT ![p].length = offset]], TRUE)

RECURSIVE PredOf(_, _, _)
\* temp = from; while(temp->next != p) temp = temp->next;  NULL when the walk
\* falls off the chain (the C code then dereferences NULL).
PredOf(h, from, p) ==
  IF from = NULL THEN NULL
  ELSE IF h[from].next = p THEN from
  ELSE PredOf(h, h[from].next, p)

remove_piece_from_table(t, p) ==
  IF p = NULL THEN Ret(t, FALSE)
  ELSE IF t.pieces_head = p
  THEN Ret([t EXCEPT !.pieces_head = t.heap[p].next, !.freed = @ \cup {p}], TRUE)
  ELSE LET prev == PredOf(t.heap, t.pieces_head, p)
       IN  IF prev = NULL THEN Crash(t)
           ELSE Ret([t EXCEPT !.heap[prev].next = t.heap[p].next,
                              !.freed = @ \cup {p}], TRUE)

RECURSIVE ChainFrom(_, _, _)
\* The ids met following next from p (at most fuel of them).
ChainFrom(h, p, fuel) ==
  IF p = NULL \/ fuel = 0 THEN <<>>
  ELSE <<p>> \o ChainFrom(h, h[p].next, fuel - 1)

Chain(t) == ChainFrom(t.heap, t.pieces_head, Len(t.heap))

RECURSIVE Resolve(_, _, _)
\* while(p) { if(remaining_offset <= p->length) break;
\*            remaining_offset -= p->length; p = p->next; }
Resolve(h, p, remaining_offset) ==
  IF p = NULL THEN [p |-> NULL, offset |-> remaining_offset]
  ELSE IF remaining_offset <= h[p].length THEN [p |-> p, offset |-> remaining_offset]
  ELSE Resolve(h, h[p].next, remaining_offset - h[p].length)

----------------------------------------------------------------------------
(* Queries *)

RECURSIVE SumLengths(_, _)
SumLengths(h, ids) ==
  IF ids = <<>> THEN 0 ELSE h[Head(ids)].length + SumLengths(h, Tail(ids))

piece_table_get_length(t) == SumLengths(t.heap, Chain(t))

RECURSIVE PiecesBytes(_, _)
PiecesBytes(t, ids) ==
  IF ids = <<>> THEN <<>>
  ELSE LET p == t.heap[Head(ids)]
       IN  ReadBytes(t, p.buffer, p.start_position, p.length) \o PiecesBytes(t, Tail(ids))

\* The string_length bytes piece_table_to_string copies; the caller receives
\* them as a char*, that is as the C string they start.
to_string_bytes(t) == PiecesBytes(t, Chain(t))

piece_table_to_string(t) == CStr(to_string_bytes(t))

----------------------------------------------------------------------------
(* piece_table_get_slice *)

RECURSIVE IdsUntil(_, _, _, _)
\* The ids from p up to, not including, stop; <<NULL>> is appended when the
\* walk falls off the chain before meeting stop.
IdsUntil(h, p, stop, fuel) ==
  IF p = stop THEN <<>>
  ELSE IF p = NULL \/ fuel = 0 THEN <<NULL>>
  ELSE <<p>> \o IdsUntil(h, h[p].next, stop, fuel - 1)

\* calloc(n + 1) then the copies: the first n bytes of the result.
Fit(bytes, n) == [k \in 1..n |-> IF k <= Len(bytes) THEN bytes[k] ELSE NUL]

piece_table_get_slice(t, position, length) ==
  LET h == t.heap
      s == Resolve(h, t.pieces_head, position)
      e == Resolve(h, t.pieces_head, position + length)
  IN  IF s.p = NULL \/ e.p = NULL THEN NoString
      ELSE IF s.p = e.p
      THEN ReadBytes(t, h[s.p].buffer, s.offset, length)
      ELSE LET first == ReadBytes(t, h[s.p].buffer, s.offset, h[s.p].length - s.offset)
               mids  == PiecesBytes(t, IdsUntil(h, h[s.p].next, e.p, Len(h)))
               last  == ReadBytes(t, h[e.p].buffer, h[e.p].start_position, e.offset)
           IN  Fit(first \o mids \o last, length)

piece_table_get_char_at(t, position) ==
  LET r == Resolve(t.heap, t.pieces_head, position)
  IN  IF r.p = NULL THEN NUL
      ELSE ReadByte(t, t.heap[r.p].buffer, t.heap[r.p].start_position + r.offset)

----------------------------------------------------------------------------
(* piece_table_get_line *)

RECURSIVE ScanPiece(_, _, _, _, _)
\* The for loop over the bytes of piece p from index i on.  st carries
\* new_line_tokens, the starting and ending piece with their offsets, and
\* found_ending_piece.  ending_piece_offset = i - 1 is kept as an integer: -1
\* stands for the unsigned value it wraps to.
ScanPiece(t, p, i, line, st) ==
  IF i >= t.heap[p].length THEN st
  ELSE IF ReadByte(t, t.heap[p].buffer, t.heap[p].start_position + i) # NL
  THEN ScanPiece(t, p, i + 1, line, st)
  ELSE LET tokens == st.new_line_tokens + 1
           st1 == [st EXCEPT !.new_line_tokens = tokens]
           st2 == IF tokens = line - 1
                  THEN [st1 EXCEPT !.starting_piece = p, !.starting_piece_offset = i + 1]
                  ELSE st1
       IN  IF tokens = line
           THEN [st2 EXCEPT !.ending_piece = p, !.ending_piece_offset = i - 1,
                            !.found_ending_piece = TRUE]
           ELSE ScanPiece(t, p, i + 1, line, st2)

RECURSIVE ScanChain(_, _, _, _)
\* The while loop over the pieces; st.p is the piece the loop stops on.
ScanChain(t, p, line, st) ==
  IF p = NULL THEN [st EXCEPT !.p = NULL]
  ELSE LET st1 == ScanPiece(t, p, 0, line, st)
       IN  IF st1.found_ending_piece \/ t.heap[p].next = NULL
           THEN [st1 EXCEPT !.p = p]
           ELSE ScanChain(t, t.heap[p].next, line, st1)

\* The result is [t, ret, string]: string is the char* handed back.
piece_table_get_line(t, line) ==
  LET h  == t.heap
      st == ScanChain(t, t.pieces_head, line,
                      [new_line_tokens |-> 0, starting_piece |-> t.pieces_head,
                       starting_piece_offset |-> 0, ending_piece |-> NULL,
                       ending_piece_offset |-> 0, found_ending_piece |-> FALSE,
                       p |-> t.pieces_head])
      sp == st.starting_piece
      so == st.starting_piece_offset
      ep == IF st.found_ending_piece THEN st.ending_piece ELSE st.p
      eo == IF st.found_ending_piece THEN st.ending_piece_offset ELSE h[ep].length
  IN  IF line > st.new_line_tokens + 1 THEN [t |-> t, string |-> NoString]
      ELSE IF ep = NULL THEN [t |-> Crash(t).t, string |-> NoString]   \* p->length, p NULL
      ELSE IF sp = ep
      THEN [t |-> t,
            string |-> CStr(ReadBytes(t, h[sp].buffer, h[sp].start_position + so,
                                      eo - so + 1))]
      ELSE IF eo < 0                       \* memcpy of UINT_MAX bytes
      THEN [t |-> Crash(t).t, string |-> NoString]
      ELSE LET first == ReadBytes(t, h[sp].buffer, h[sp].start_position + so,
                                  h[sp].length - so)
               mids  == PiecesBytes(t, IdsUntil(h, h[sp].next, ep, Len(h)))
               last  == ReadBytes(t, h[ep].buffer, h[ep].start_position, eo)
           IN  [t |-> t, string |-> CStr(first \o mids \o last)]

----------------------------------------------------------------------------
(* Command journal *)

strdup(s) == IF s = NoString THEN NoString ELSE CStr(s)

memsafe_operation_new(type, start_position, length, inserted_string, removed_string) ==
  [type |-> type, start_position |-> start_position, length |-> length,
   inserted_string |-> strdup(inserted_string),
   removed_string |-> strdup(removed_string)]

\* Mutant: the new top is not linked to the old one (op->next is left NULL).
push_memsafe_operation_unlinked(stack, op) == <<op>>

push_memsafe_operation_on_stack(stack, op) == <<op>> \o stack

move_memsafe_operation_from_undo_to_redo_stack(t) ==
  IF t.memsafe_undo_stack_top = <<>> THEN Ret(t, FALSE)
  ELSE Ret([t EXCEPT !.memsafe_undo_stack_top = Tail(@),
                     !.memsafe_redo_stack_top = <<Head(t.memsafe_undo_stack_top)>> \o @],
           TRUE)

move_memsafe_operation_from_redo_to_undo_stack(t) ==
  IF t.memsafe_redo_stack_top = <<>> THEN Ret(t, FALSE)
  ELSE Ret([t EXCEPT !.memsafe_redo_stack_top = Tail(@),
                     !.memsafe_undo_stack_top = <<Head(t.memsafe_redo_stack_top)>> \o @],
           TRUE)

----------------------------------------------------------------------------
(* The two halves every edit is made of *)

\* Mutant: the string is copied to the start of the ADD buffer.
OverwriteAdd(t, string) == [t EXCEPT !.add_buffer = CStr(string)]

\* Appending string to the ADD buffer (strdup the first time, realloc + memcpy after).
AppendToAdd(t, string) == [t EXCEPT !.add_buffer = @ \o CStr(string)]

\* Linking a new ADD piece (start, length) at offset remaining_offset of piece p.
LinkNewPiece(t, p, remaining_offset, start, length) ==
  LET n == NewId(t)
  IN  IF remaining_offset = t.heap[p].length
      THEN LET t1 == piece_new(t, "ADD", start, length)
           IN  Ret([t1 EXCEPT !.heap = insert_piece_after(@, n, p)], TRUE)
      ELSE IF remaining_offset = 0
      THEN LET t1 == piece_new(t, "ADD", start, length)
               t2 == [t1 EXCEPT !.heap[n].next = p]
           IN  IF p = t.pieces_head
               THEN Ret([t2 EXCEPT !.pieces_head = n], TRUE)
               ELSE LET temp == PredOf(t.heap, t.pieces_head, p)
                    IN  IF temp = NULL THEN Crash(t2)
                        ELSE Ret([t2 EXCEPT !.heap[temp].next = n], TRUE)
      ELSE LET s == split_piece_at(t, p, remaining_offset)
           IN  IF ~s.ret THEN Ret(s.t, FALSE)
               ELSE LET m  == NewId(s.t)
                        t1 == piece_new(s.t, "ADD", start, length)
                    IN  Ret([t1 EXCEPT !.heap = insert_piece_after(@, m, p)], TRUE)

\* Unlinking and freeing the pieces from first up to last, both included,
\* where first follows piece before.
FreeRun(t, before, last) ==
  LET ids == IdsUntil(t.heap, t.heap[before].next, last, Len(t.heap))
  IN  IF ids # <<>> /\ ids[Len(ids)] = NULL THEN Crash(t)
      ELSE Ret([t EXCEPT !.heap[before].next = t.heap[last].next,
                         !.freed = @ \cup {ids[k] : k \in 1..Len(ids)} \cup {last}],
               TRUE)

\* Removing length bytes that start at offset so of piece sp and end at
\* offset eo of piece ep.
RemoveSpan(t, sp, so, ep, eo, length) ==
  IF sp = ep
  THEN IF so + length = t.heap[ep].length
       THEN Ret([t EXCEPT !.heap[sp].length = @ - length], TRUE)
       ELSE LET s1 == split_piece_at(t, sp, so + length)
            IN  IF ~s1.ret THEN Ret(s1.t, FALSE)
                ELSE LET s2 == split_piece_at(s1.t, sp, so)
                     IN  IF ~s2.ret THEN Ret(s2.t, FALSE)
                         ELSE Ret(remove_piece_from_table(s2.t, s2.t.heap[sp].next).t, TRUE)
  ELSE LET s1 == IF so # t.heap[sp].length THEN split_piece_at(t, sp, so) ELSE Ret(t, TRUE)
       IN  IF ~s1.ret THEN Ret(s1.t, FALSE)
           ELSE LET s2 == IF eo # s1.t.heap[ep].length
                          THEN split_piece_at(s1.t, ep, eo + 1) ELSE Ret(s1.t, TRUE)
                IN  IF ~s2.ret THEN Ret(s2.t, FALSE)
                    ELSE IF s2.t.heap[sp].next = ep
                    THEN Ret(remove_piece_from_table(s2.t, ep).t, TRUE)
                    ELSE FreeRun(s2.t, sp, ep)

----------------------------------------------------------------------------
(* Public edits *)

piece_table_insert(t, position, string) ==
  IF string = NoString THEN Ret(t, FALSE)
  ELSE LET r == Resolve(t.heap, t.pieces_head, position)
       IN  IF r.p = NULL THEN Ret(t, FALSE)
           ELSE LET msop == memsafe_operation_new("INSERT", position, 0, string, NoString)
                    t1   == [t EXCEPT !.memsafe_undo_stack_top =
                                        push_memsafe_operation_on_stack(@, msop)]
                    t2   == AppendToAdd(t1, string)
                IN  LinkNewPiece(t2, r.p, r.offset, Len(t.add_buffer), strlen(string))

piece_table_memsafe_remove(t, position, length) ==
  LET s == Resolve(t.heap, t.pieces_head, position)
      e == Resolve(t.heap, t.pieces_head, position + length)
  IN  IF s.p = NULL \/ e.p = NULL THEN Ret(t, FALSE)
      ELSE LET slice == piece_table_get_slice(t, position, length)
               msop  == memsafe_operation_new("REMOVE", position, length, NoString, slice)
               t1    == [t EXCEPT !.memsafe_undo_stack_top =
                                    push_memsafe_operation_on_stack(@, msop)]
           IN  RemoveSpan(t1, s.p, s.offset, e.p, e.offset, length)

piece_table_memsafe_replace(t, position, length, string) ==
  LET s == Resolve(t.heap, t.pieces_head, position)
      e == Resolve(t.heap, t.pieces_head, position + length)
  IN  IF string = NoString \/ s.p = NULL \/ e.p = NULL THEN Ret(t, FALSE)
      ELSE LET slice == piece_table_get_slice(t, position, length)
               msop  == memsafe_operation_new("REPLACE", position, length, string, slice)
               t1    == [t EXCEPT !.memsafe_undo_stack_top =
                                    push_memsafe_operation_on_stack(@, msop)]
               rm    == RemoveSpan(t1, s.p, s.offset, e.p, e.offset, length)
           IN  IF ~rm.ret \/ rm.t.crashed THEN Ret(rm.t, FALSE)
               ELSE LET r == Resolve(rm.t.heap, rm.t.pieces_head, position)
                    IN  IF r.p = NULL THEN Ret(rm.t, FALSE)
                        ELSE LinkNewPiece(AppendToAdd(rm.t, string), r.p, r.offset,
                                          Len(rm.t.add_buffer), strlen(string))

----------------------------------------------------------------------------
(* Undo and redo over the command journal *)

memsafe_undo_insert(t, op) ==
  IF op.inserted_string = NoString THEN Crash(t)     \* strlen(NULL)
  ELSE LET position == op.start_position
           length   == strlen(op.inserted_string)
           s == Resolve(t.heap, t.pieces_head, position)
           e == Resolve(t.heap, t.pieces_head, position + length)
       IN  IF s.p = NULL \/ e.p = NULL THEN Ret(t, FALSE)
           ELSE RemoveSpan(t, s.p, s.offset, e.p, e.offset, length)

memsafe_undo_remove(t, op) ==
  LET string == op.removed_string
      r == Resolve(t.heap, t.pieces_head, op.start_position)
  IN  IF string = NoString THEN Crash(t)             \* strlen(NULL)
      ELSE IF r.p = NULL THEN Crash(AppendToAdd(t, string))   \* p->length, p NULL
      ELSE LinkNewPiece(AppendToAdd(t, string), r.p, r.offset,
                        Len(t.add_buffer), strlen(string))

memsafe_undo_replace(t, op) ==
  LET a == memsafe_undo_insert(t, op)
  IN  IF ~a.ret \/ a.t.crashed THEN Ret(a.t, FALSE) ELSE memsafe_undo_remove(a.t, op)

memsafe_redo_insert(t, op) == memsafe_undo_remove(t, op)

memsafe_redo_remove(t, op) == memsafe_undo_insert(t, op)

memsafe_redo_replace(t, op) ==
  LET a == memsafe_redo_remove(t, op)
  IN  IF ~a.ret \/ a.t.crashed THEN Ret(a.t, FALSE) ELSE memsafe_redo_insert(a.t, op)

\* The inverse edit piece_table_memsafe_undo applies for the top record.
UndoApply(t) ==
  LET op == Head(t.memsafe_undo_stack_top)
  IN  IF op.type = "INSERT" THEN memsafe_undo_insert(t, op)
      ELSE IF op.type = "REMOVE" THEN memsafe_undo_remove(t, op)
      ELSE memsafe_undo_replace(t, op)

\* The body of piece_table_memsafe_undo once the stack is known not to be
\* empty: the helper's return value is dropped, the record always moves.
UndoTop(t) ==
  LET r == UndoApply(t)
  IN  IF r.t.crashed THEN Ret(r.t, FALSE)
      ELSE move_memsafe_operation_from_undo_to_redo_stack(r.t)

\* Mutant: the empty-stack guard is missing, op->type reads through NULL.
piece_table_memsafe_undo_unguarded(t) ==
  IF t.memsafe_undo_stack_top = <<>> THEN Crash(t) ELSE UndoTop(t)

piece_table_memsafe_undo(t) ==
  IF t.memsafe_undo_stack_top = <<>> THEN Ret(t, FALSE) ELSE UndoTop(t)

\* The forward edit piece_table_memsafe_redo applies for the top record.
RedoApply(t) ==
  LET op == Head(t.memsafe_redo_stack_top)
  IN  IF op.type = "INSERT" THEN memsafe_redo_insert(t, op)
      ELSE IF op.type = "REMOVE" THEN memsafe_redo_remove(t, op)
      ELSE memsafe_redo_replace(t, op)

\* The body of piece_table_memsafe_redo once the stack is known not to be empty.
RedoTop(t) ==
  LET r == RedoApply(t)
  IN  IF r.t.crashed THEN Ret(r.t, FALSE)
      ELSE move_memsafe_operation_from_redo_to_undo_stack(r.t)

piece_table_memsafe_redo(t) ==
  IF t.memsafe_redo_stack_top = <<>> THEN Ret(t, FALSE) ELSE RedoTop(t)

----------------------------------------------------------------------------
(* Pointer journal: records that name pieces *)

operation_new(type, prev_piece, start_piece, end_piece, next_piece) ==
  [type |-> type, prev_piece |-> prev_piece, start_piece |-> start_piece,
   end_piece |-> end_piece, next_piece |-> next_piece]

push_operation_on_stack(stack, op) == <<op>> \o stack

move_operation_from_undo_to_redo_stack(t) ==
  IF t.undo_stack_top = <<>> THEN Ret(t, FALSE)
  ELSE Ret([t EXCEPT !.undo_stack_top = Tail(@),
                     !.redo_stack_top = <<Head(t.undo_stack_top)>> \o @], TRUE)

move_operation_from_redo_to_undo_stack(t) ==
  IF t.redo_stack_top = <<>> THEN Ret(t, FALSE)
  ELSE Ret([t EXCEPT !.redo_stack_top = Tail(@),
                     !.undo_stack_top = <<Head(t.redo_stack_top)>> \o @], TRUE)

\* Recording the removal of the one piece that follows piece before and
\* unlinking it ("virtually removing" it: the piece is kept for undo).
RecordAndUnlinkAfter(t, before) ==
  LET x  == t.heap[before].next
      op == operation_new("REMOVE", before, x, x, t.heap[x].next)
  IN  Ret([t EXCEPT !.undo_stack_top = push_operation_on_stack(@, op),
                    !.heap[before].next = t.heap[x].next], TRUE)

piece_table_remove(t, position, length) ==
  LET h == t.heap
      s == Resolve(h, t.pieces_head, position)
      e == Resolve(h, t.pieces_head, position + length)
      sp == s.p
      so == s.offset
      ep == e.p
      eo == e.offset
  IN  IF sp = NULL \/ ep = NULL THEN Ret(t, FALSE)
      ELSE IF sp = ep
      THEN IF so + length = h[sp].length
           THEN \* removal at the end of the piece
                LET s1 == split_piece_at(t, sp, so)
                IN  IF ~s1.ret THEN Ret(s1.t, FALSE)
                    ELSE RecordAndUnlinkAfter(s1.t, sp)
           ELSE \* removal inside the piece: two splits
                LET s1 == split_piece_at(t, sp, so + length)
                    s2 == IF so # 0 THEN split_piece_at(s1.t, sp, so) ELSE s1
                IN  IF ~s1.ret THEN Ret(s1.t, FALSE)
                    ELSE IF so # 0 THEN RecordAndUnlinkAfter(s2.t, sp)
                    ELSE IF sp = t.pieces_head
                    THEN LET op == operation_new("REMOVE", NULL, sp, sp, s1.t.heap[sp].next)
                         IN  Ret([s1.t EXCEPT
                                    !.undo_stack_top = push_operation_on_stack(@, op),
                                    !.pieces_head = s1.t.heap[sp].next], TRUE)
                    ELSE LET before == PredOf(s1.t.heap, t.pieces_head, sp)
                             rm     == remove_piece_from_table(s1.t, sp)
                         IN  RecordAndUnlinkAfter(rm.t, before)
      ELSE \* the range spans pieces: the record is pushed, nothing is unlinked
           LET s1 == split_piece_at(t, sp, so)
           IN  IF ~s1.ret THEN Ret(s1.t, FALSE)
               ELSE LET s2 == split_piece_at(s1.t, ep, eo + 1)
                        op == operation_new("REMOVE", sp, s2.t.heap[sp].next, ep,
                                            s2.t.heap[ep].next)
                    IN  Ret([s2.t EXCEPT
                               !.undo_stack_top = push_operation_on_stack(@, op)], TRUE)

piece_table_replace(t, position, length, string) ==
  IF string = NoString THEN Ret(t, FALSE)
  ELSE LET rm == piece_table_remove(t, position, length)
       IN  IF ~rm.ret THEN Ret(rm.t, FALSE)
           ELSE piece_table_insert(rm.t, position, string)

piece_table_undo(t) ==
  IF t.undo_stack_top = <<>> THEN Ret(t, FALSE)
  ELSE LET op == Head(t.undo_stack_top)
           t1 == IF op.prev_piece = NULL
                 THEN [t EXCEPT !.pieces_head = op.next_piece]
                 ELSE [t EXCEPT !.heap[op.prev_piece].next = op.next_piece]
       IN  move_operation_from_undo_to_redo_stack(t1)

piece_table_redo(t) ==
  IF t.redo_stack_top = <<>> THEN Ret(t, FALSE)
  ELSE LET op == Head(t.redo_stack_top)
           t1 == IF op.prev_piece = NULL
                 THEN [t EXCEPT !.pieces_head = op.start_piece]
                 ELSE [t EXCEPT !.heap[op.prev_piece].next = op.start_piece,
                                !.heap[op.end_piece].next = op.next_piece]
       IN  move_operation_from_redo_to_undo_stack(t1)

----------------------------------------------------------------------------
(* Micro-insert sessions *)

piece_table_start_micro_inserts(t, position) ==
  LET r == Resolve(t.heap, t.pieces_head, position)
      p == r.p
  IN  IF p = NULL THEN Ret(t, FALSE)
      ELSE LET prev == IF r.offset = t.heap[p].length THEN p
                       ELSE IF r.offset # 0 THEN p
                       ELSE IF p = t.pieces_head THEN NULL
                       ELSE PredOf(t.heap, t.pieces_head, p)
               l    == LinkNewPiece(t, p, r.offset, Len(t.add_buffer), 0)
               n    == Len(l.t.heap)
               op   == operation_new("INSERT", prev, n, n, l.t.heap[n].next)
           IN  IF ~l.ret \/ l.t.crashed THEN Ret(l.t, FALSE)
               ELSE Ret([l.t EXCEPT !.piece_with_micro_inserts = n,
                                    !.undo_with_micro_inserts = <<op>>], TRUE)

piece_table_micro_insert(t, string) ==
  IF string = NoString THEN Ret(t, FALSE)
  ELSE IF t.piece_with_micro_inserts = NULL THEN Ret(t, FALSE)
  ELSE IF t.undo_with_micro_inserts = <<>> THEN Ret(t, FALSE)
  ELSE LET t1 == AppendToAdd(t, string)
       IN  Ret([t1 EXCEPT !.heap[t.piece_with_micro_inserts].length = @ + strlen(string)],
               TRUE)

\* Mutant: the stop pushes the pending record and leaves the session open.
piece_table_stop_keeping_session(t) ==
  IF t.undo_with_micro_inserts = <<>> THEN Ret(t, FALSE)
  ELSE Ret([t EXCEPT !.undo_stack_top =
                       push_operation_on_stack(@, Head(t.undo_with_micro_inserts))],
           TRUE)

piece_table_stop_micro_inserts(t) ==
  IF t.undo_with_micro_inserts = <<>> THEN Ret(t, FALSE)
  ELSE Ret([t EXCEPT !.undo_stack_top =
                       push_operation_on_stack(@, Head(t.undo_with_micro_inserts)),
                     !.piece_with_micro_inserts = NULL,
                     !.undo_with_micro_inserts = <<>>], TRUE)

----------------------------------------------------------------------------
(* Construction *)

piece_table_new ==
  [original_buffer |-> <<>>, add_buffer |-> <<>>, heap |-> <<>>, pieces_head |-> NULL,
   freed |-> {}, undo_stack_top |-> <<>>, redo_stack_top |-> <<>>,
   memsafe_undo_stack_top |-> <<>>, memsafe_redo_stack_top |-> <<>>,
   piece_with_micro_inserts |-> NULL, undo_with_micro_inserts |-> <<>>,
   crashed |-> FALSE, wild |-> NUL]

\* Mutant: the first piece also spans the terminator of the buffer.
piece_table_from_string_and_terminator(string) ==
  LET t == [piece_table_new EXCEPT !.original_buffer = CStr(string)]
  IN  [piece_new(t, "ORIGINAL", 0, strlen(string) + 1) EXCEPT !.pieces_head = 1]

piece_table_from_string(string) ==
  LET t == [piece_table_new EXCEPT !.original_buffer = CStr(string)]
  IN  [piece_new(t, "ORIGINAL", 0, strlen(string)) EXCEPT !.pieces_head = 1]

----------------------------------------------------------------------------
(* The state machine: one action per public call *)

\* The pieces the chain of t is made of.
PiecesOf(t) == {Chain(t)[i] : i \in 1..Len(Chain(t))}

\* Among the pieces a call dereferences is one that was handed to free():
\* what the call finds there is no longer defined by the program.
Dangling(t, touched) == touched \cap t.freed # {}

\* A freed block as the allocator may leave it: its first words overwritten.
Scribble(t) ==
  [t EXCEPT !.heap = [i \in DOMAIN t.heap |->
                        IF i \in t.freed
                        THEN [t.heap[i] EXCEPT !.buffer = "ADD", !.length = 0,
                                               !.start_position = Len(t.add_buffer) + 2]
                        ELSE t.heap[i]]]

\* What a call that dereferences the pieces in touched may find in table t:
\* live pieces as they are; a freed piece as it was, or as the allocator
\* left it.
Found(t, touched) == IF Dangling(t, touched) THEN {t, Scribble(t)} ELSE {t}

\* Dereferencing a freed piece may also end the process.
Faults(t, touched) == IF Dangling(t, touched) THEN {Crash(t)} ELSE {}

\* The observable outcome of a call, kept in the ghost variable calls.
Outcome(c, r) ==
  [op |-> c.op, position |-> c.position, length |-> c.length, string |-> c.string,
   ret |-> r.ret /\ ~r.t.crashed, crashed |-> r.t.crashed,
   ub |-> Dangling(r.t, PiecesOf(r.t)),
   doc |-> IF r.t.crashed THEN <<>> ELSE piece_table_to_string(r.t),
   len |-> IF r.t.crashed THEN 0 ELSE piece_table_get_length(r.t),
   undo |-> r.t.memsafe_undo_stack_top, redo |-> r.t.memsafe_redo_stack_top,
   t |-> r.t]

\* What a query handed back: value is the returned string (NoString for a
\* NULL pointer), or the one byte piece_table_get_char_at returns.
Answer(op, position, length, value) ==
  [op |-> op, position |-> position, length |-> length, value |-> value]

\* No query has been made since the last edit.
NoAnswer == Answer("none", 0, 0, NoString)

Call(op, position, length, string) ==
  [op |-> op, position |-> position, length |-> length, string |-> string]

\* The table a call leaves becomes the state; ub tells that the call
\* dereferenced a freed piece.
Commit(c, r, ub) ==
  /\ original_buffer' = r.t.original_buffer
  /\ add_buffer' = r.t.add_buffer
  /\ heap' = r.t.heap
  /\ pieces_head' = r.t.pieces_head
  /\ freed' = r.t.freed
  /\ undo_stack_top' = r.t.undo_stack_top
  /\ redo_stack_top' = r.t.redo_stack_top
  /\ memsafe_undo_stack_top' = r.t.memsafe_undo_stack_top
  /\ memsafe_redo_stack_top' = r.t.memsafe_redo_stack_top
  /\ piece_with_micro_inserts' = r.t.piece_with_micro_inserts
  /\ undo_with_micro_inserts' = r.t.undo_with_micro_inserts
  /\ crashed' = r.t.crashed
  /\ wild' = wild
  /\ budget' = budget
  /\ calls' = Append(calls, [Outcome(c, r) EXCEPT !.ub = @ \/ ub])
  /\ answer' = NoAnswer

InitTable(t, w) ==
  /\ original_buffer = t.original_buffer
  /\ add_buffer = t.add_buffer
  /\ heap = t.heap
  /\ pieces_head = t.pieces_head
  /\ freed = t.freed
  /\ undo_stack_top = t.undo_stack_top
  /\ redo_stack_top = t.redo_stack_top
  /\ memsafe_undo_stack_top = t.memsafe_undo_stack_top
  /\ memsafe_redo_stack_top = t.memsafe_redo_stack_top
  /\ piece_with_micro_inserts = t.piece_with_micro_inserts
  /\ undo_with_micro_inserts = t.undo_with_micro_inserts
  /\ crashed = FALSE
  /\ wild = w

Constructed ==
  \E w \in WildBytes :
    \/ /\ InitTable(piece_table_new, w)
       /\ calls = <<Outcome(Call("new", 0, 0, NoString), Ret(piece_table_new, TRUE))>>
    \/ \E d \in InitDocs :
         /\ InitTable(piece_table_from_string(d), w)
         /\ calls = <<Outcome(Call("from_string", 0, 0, d),
                              Ret(piece_table_from_string(d), TRUE))>>

Init == Constructed /\ budget = MaxOps /\ answer = NoAnswer

InitDeep == Constructed /\ budget = MaxDeep /\ answer = NoAnswer

\* A live process that has calls left to make.
Running == ~crashed /\ Len(calls) <= budget

\* The call c, which dereferences the pieces in touched, ends in one of
\* results or in a fault.
Done(c, touched, results) ==
  \E r \in results \cup Faults(Table, touched) :
    Commit(c, r, Dangling(Table, touched))

\* The pieces a call that resolves a position walks over.
Walked == PiecesOf(Table)

DocLength == piece_table_get_length(Table)

\* Positions and lengths a caller may pass: every valid one and one too many.
Positions == 0..(DocLength + 1)
Lengths == 0..MaxLen

Insert ==
  /\ Running
  /\ \E position \in Positions, string \in Texts \cup {<<>>} :
       Done(Call("insert", position, 0, string), Walked,
            {piece_table_insert(t, position, string) : t \in Found(Table, Walked)})

MemsafeRemove ==
  /\ Running
  /\ \E position \in Positions, length \in Lengths :
       Done(Call("remove", position, length, NoString), Walked,
            {piece_table_memsafe_remove(t, position, length) : t \in Found(Table, Walked)})

MemsafeReplace ==
  /\ Running
  /\ \E position \in Positions, length \in Lengths, string \in Texts :
       Done(Call("replace", position, length, string), Walked,
            {piece_table_memsafe_replace(t, position, length, string) : t \in Found(Table, Walked)})

MemsafeUndo ==
  /\ Running
  /\ Done(Call("undo", 0, 0, NoString), Walked,
            {piece_table_memsafe_undo(t) : t \in Found(Table, Walked)})

MemsafeRedo ==
  /\ Running
  /\ Done(Call("redo", 0, 0, NoString), Walked,
            {piece_table_memsafe_redo(t) : t \in Found(Table, Walked)})

Next == Insert \/ MemsafeRemove \/ MemsafeReplace \/ MemsafeUndo \/ MemsafeRedo

Spec == Init /\ [][Next]_vars

\* The same machine run for longer call sequences.
SpecDeep == InitDeep /\ [][Next]_vars

\* The pieces piece_table_undo and piece_table_redo write to.
UndoTouches ==
  IF undo_stack_top = <<>> THEN {} ELSE {Head(undo_stack_top).prev_piece}
RedoTouches ==
  IF redo_stack_top = <<>> THEN {}
  ELSE IF Head(redo_stack_top).prev_piece = NULL THEN {}
  ELSE {Head(redo_stack_top).prev_piece, Head(redo_stack_top).end_piece}

Remove ==
  /\ Running
  /\ \E position \in Positions, length \in Lengths :
       Done(Call("piece_table_remove", position, length, NoString), Walked,
            {piece_table_remove(t, position, length) : t \in Found(Table, Walked)})

Replace ==
  /\ Running
  /\ \E position \in Positions, length \in Lengths, string \in Texts :
       Done(Call("piece_table_replace", position, length, string), Walked,
            {piece_table_replace(t, position, length, string) : t \in Found(Table, Walked)})

Undo ==
  /\ Running
  /\ Done(Call("piece_table_undo", 0, 0, NoString), UndoTouches,
            {piece_table_undo(t) : t \in Found(Table, UndoTouches)})

Redo ==
  /\ Running
  /\ Done(Call("piece_table_redo", 0, 0, NoString), RedoTouches,
            {piece_table_redo(t) : t \in Found(Table, RedoTouches)})

StartMicroInserts ==
  /\ Running
  /\ \E position \in Positions :
       Done(Call("start_micro_inserts", position, 0, NoString), Walked,
            {piece_table_start_micro_inserts(t, position) : t \in Found(Table, Walked)})

MicroInsert ==
  /\ Running
  /\ \E string \in Texts :
       Done(Call("micro_insert", 0, 0, string), {piece_with_micro_inserts},
            {piece_table_micro_insert(t, string) : t \in Found(Table, {piece_with_micro_inserts})})

StopMicroInserts ==
  /\ Running
  /\ Commit(Call("stop_micro_inserts", 0, 0, NoString),
              piece_table_stop_micro_inserts(Table), FALSE)

\* Every mutating call of the public API.
NextAll ==
  \/ Next
  \/ Remove \/ Replace \/ Undo \/ Redo
  \/ StartMicroInserts \/ MicroInsert \/ StopMicroInserts

SpecAll == Init /\ [][NextAll]_vars

\* split_piece_at, called on a piece of the chain as the edits call it: the
\* call record holds the piece in position and the offset in length.
SplitPieceAt ==
  /\ Running
  /\ \E p \in PiecesOf(Table) :
       \E offset \in 0..heap[p].length :
         Commit(Call("split_piece_at", p, offset, NoString),
                split_piece_at(Table, p, offset), FALSE)

\* Insertions, which make chains of several pieces, and splits.
NextSplit == Insert \/ SplitPieceAt

SpecSplit == Init /\ [][NextSplit]_vars

\* Sessions and the calls that undo and redo them.
InitSession == Constructed /\ budget = MaxSession /\ answer = NoAnswer

NextSession == StartMicroInserts \/ MicroInsert \/ StopMicroInserts \/ Undo \/ Redo

SpecSession == InitSession /\ [][NextSession]_vars

\* Lines a caller may ask for.
Lines == 1..MaxLine

\* A query reads the table an edit (or the construction) left: no query
\* changes the table, so what a query returns does not depend on the queries
\* made before it, and one query after each edit reaches every answer.
Asking == ~crashed /\ answer = NoAnswer

\* Mutant: the query walks the chain with the table's own head pointer and
\* leaves it at the end of the chain.
AskedAdvancingHead(a, dead) ==
  /\ answer' = a
  /\ crashed' = dead
  /\ pieces_head' = NULL
  /\ UNCHANGED <<original_buffer, add_buffer, heap, freed, undo_stack_top,
                 redo_stack_top, memsafe_undo_stack_top, memsafe_redo_stack_top,
                 piece_with_micro_inserts, undo_with_micro_inserts, wild, calls, budget>>

\* A query leaves the table alone and hands its result to the caller.
Asked(a, dead) ==
  /\ answer' = a
  /\ crashed' = dead
  /\ UNCHANGED <<original_buffer, add_buffer, heap, pieces_head, freed, undo_stack_top,
                 redo_stack_top, memsafe_undo_stack_top, memsafe_redo_stack_top,
                 piece_with_micro_inserts, undo_with_micro_inserts, wild, calls, budget>>

GetCharAt ==
  /\ Asking
  /\ \E position \in Positions :
       Asked(Answer("get_char_at", position, 0,
                    <<piece_table_get_char_at(Table, position)>>), FALSE)

GetSlice ==
  /\ Asking
  /\ \E position \in Positions, length \in Lengths :
       Asked(Answer("get_slice", position, length,
                    piece_table_get_slice(Table, position, length)), FALSE)

GetLine ==
  /\ Asking
  /\ \E line \in Lines :
       LET r == piece_table_get_line(Table, line)
       IN  Asked(Answer("get_line", line, 0, r.string), r.t.crashed)

GetLength ==
  /\ Asking
  /\ Asked(Answer("get_length", 0, 0, <<piece_table_get_length(Table)>>), FALSE)

GetString ==
  /\ Asking
  /\ Asked(Answer("to_string", 0, 0, piece_table_to_string(Table)), FALSE)

\* The edits and the queries.
NextQuery == Next \/ GetCharAt \/ GetSlice \/ GetLine \/ GetLength \/ GetString

SpecQuery == Init /\ [][NextQuery]_vars

\* Tables constructed from every short string.
RECURSIVE StringsOf(_)
StringsOf(n) ==
  IF n = 0 THEN {<<>>}
  ELSE StringsOf(n - 1) \cup
       {Append(s, b) : s \in {x \in StringsOf(n - 1) : Len(x) = n - 1}, b \in {1, 2, NL}}

InitFrom ==
  /\ \E w \in WildBytes :
       \/ /\ InitTable(piece_table_new, w)
          /\ calls = <<Outcome(Call("new", 0, 0, NoString), Ret(piece_table_new, TRUE))>>
       \/ \E d \in StringsOf(MaxString) :
            /\ InitTable(piece_table_from_string(d), w)
            /\ calls = <<Outcome(Call("from_string", 0, 0, d),
                                 Ret(piece_table_from_string(d), TRUE))>>
  /\ budget = MaxOps
  /\ answer = NoAnswer

\* The queries, made on a table as it was constructed.
NextAsk == GetCharAt \/ GetSlice \/ GetLine \/ GetLength \/ GetString

SpecFrom == InitFrom /\ [][NextAsk]_vars

----------------------------------------------------------------------------
(* The reference string editor the claims compare against *)

Take(s, k) == [i \in 1..(IF k < Len(s) THEN k ELSE Len(s)) |-> s[i]]
Drop(s, k) == [i \in 1..(IF k < Len(s) THEN Len(s) - k ELSE 0) |-> s[i + k]]

RefInsert(doc, position, string) == Take(doc, position) \o string \o Drop(doc, position)
RefRemove(doc, position, length) == Take(doc, position) \o Drop(doc, position + length)
RefReplace(doc, position, length, string) ==
  RefInsert(RefRemove(doc, position, length), position, string)

\* What the reference editor makes of one call record.
RefApply(doc, c) ==
  IF c.op = "insert" THEN RefInsert(doc, c.position, c.string)
  ELSE IF c.op = "remove" THEN RefRemove(doc, c.position, c.length)
  ELSE IF c.op = "replace" THEN RefReplace(doc, c.position, c.length, c.string)
  ELSE doc

NCalls == Len(calls)
Last == calls[NCalls]
Prev == calls[NCalls - 1]

IsEdit(c) == c.op \in {"insert", "remove", "replace"}
\* An edit whose arguments are in range for the document it was applied to.
ValidOn(c, before) ==
  \/ c.op = "insert" /\ c.position <= before.len /\ c.string # <<>>
  \/ c.op = "remove" /\ c.length >= 1 /\ c.position + c.length <= before.len
  \/ c.op = "replace" /\ c.position + c.length <= before.len
KindOf(c) ==
  IF c.op = "insert" THEN "INSERT" ELSE IF c.op = "remove" THEN "REMOVE" ELSE "REPLACE"

----------------------------------------------------------------------------
(* Claims *)

\* C1: piece_table_insert(pos, text) with pos <= length and non-empty text
\* that returns true leaves the document equal to the previous document with
\* text inserted at pos, and the length grown by len(text).
C1_InsertMatchesReference ==
  (NCalls >= 2 /\ Last.op = "insert" /\ Last.ret /\ ValidOn(Last, Prev))
    => /\ Last.doc = RefInsert(Prev.doc, Last.position, Last.string)
       /\ Last.len = Prev.len + Len(Last.string)

\* C2: piece_table_memsafe_remove(pos, n) with n >= 1 and pos + n <= length
\* returns true and leaves the previous document with the n bytes at pos
\* deleted, the length n smaller.
C2_RemoveMatchesReference ==
  (NCalls >= 2 /\ Last.op = "remove" /\ ValidOn(Last, Prev))
    => /\ Last.ret
       /\ Last.doc = RefRemove(Prev.doc, Last.position, Last.length)
       /\ Last.len = Prev.len - Last.length

\* C3: piece_table_memsafe_replace(pos, n, text) with pos + n <= length
\* returns true and leaves the previous document with the n bytes at pos
\* deleted and text inserted at pos.
C3_ReplaceMatchesReference ==
  (NCalls >= 2 /\ Last.op = "replace" /\ ValidOn(Last, Prev))
    => /\ Last.ret
       /\ Last.doc = RefReplace(Prev.doc, Last.position, Last.length, Last.string)

\* C4: after a valid edit that succeeded on state s, one piece_table_memsafe_undo
\* returns true and restores the content and the length of s.
C4_UndoRestores ==
  (NCalls >= 3 /\ Last.op = "undo" /\ IsEdit(Prev) /\ Prev.ret
     /\ ValidOn(Prev, calls[NCalls - 2]))
    => /\ Last.ret
       /\ Last.doc = calls[NCalls - 2].doc
       /\ Last.len = calls[NCalls - 2].len

\* C5: after a valid edit followed by piece_table_memsafe_undo, a
\* piece_table_memsafe_redo returns true and restores the content right
\* after the edit.
C5_RedoRestores ==
  (NCalls >= 4 /\ Last.op = "redo" /\ Prev.op = "undo" /\ Prev.ret
     /\ IsEdit(calls[NCalls - 2]) /\ calls[NCalls - 2].ret
     /\ ValidOn(calls[NCalls - 2], calls[NCalls - 3]))
    => /\ Last.ret
       /\ Last.doc = calls[NCalls - 2].doc

RECURSIVE RefDocAfter(_)
\* The reference editor's document after the first m calls that follow construction.
RefDocAfter(m) == IF m = 0 THEN calls[1].doc ELSE RefApply(RefDocAfter(m - 1), calls[m + 1])

\* The calls so far are n edits, all valid and successful, then k <= n undos,
\* then j <= k redos.
EditsUndosRedos(n, k, j) ==
  /\ NCalls = 1 + n + k + j
  /\ \A i \in 2..(n + 1) : IsEdit(calls[i]) /\ calls[i].ret /\ ValidOn(calls[i], calls[i - 1])
  /\ \A i \in (n + 2)..(n + k + 1) : calls[i].op = "undo"
  /\ \A i \in (n + k + 2)..NCalls : calls[i].op = "redo"

\* C6: after n successful edits, k <= n undos and then j <= k redos all return
\* true and leave the document the reference editor has after the first
\* n - k + j edits.
C6_HistoryMatchesReference ==
  \A n \in 0..budget, k \in 0..budget, j \in 0..budget :
    (k <= n /\ j <= k /\ EditsUndosRedos(n, k, j))
      => /\ Last.ret
         /\ Last.doc = RefDocAfter(n - k + j)

C8_EditClearsRedo ==
  /\ (NCalls >= 2 /\ IsEdit(Last) /\ Last.ret) => Last.redo = <<>>
  /\ (NCalls >= 3 /\ Last.op = "redo" /\ IsEdit(Prev) /\ Prev.ret) => ~Last.ret

\* C9: with a non-empty redo stack, redo then undo leaves the document and
\* both stacks as they were before the pair; likewise undo then redo with a
\* non-empty undo stack.
C9_RoundTrip ==
  (/\ NCalls >= 3
   /\ \/ Prev.op = "redo" /\ Last.op = "undo" /\ calls[NCalls - 2].redo # <<>>
      \/ Prev.op = "undo" /\ Last.op = "redo" /\ calls[NCalls - 2].undo # <<>>)
    => /\ ~Last.crashed
       /\ Last.doc = calls[NCalls - 2].doc
       /\ Last.undo = calls[NCalls - 2].undo
       /\ Last.redo = calls[NCalls - 2].redo

\* The calls' step is an undo on an empty undo stack or a redo on an empty redo stack.
EmptyStackCall ==
  /\ calls' # calls
  /\ \/ calls'[Len(calls')].op = "undo" /\ memsafe_undo_stack_top = <<>>
     \/ calls'[Len(calls')].op = "redo" /\ memsafe_redo_stack_top = <<>>

\* C10: piece_table_memsafe_undo on an empty undo stack and
\* piece_table_memsafe_redo on an empty redo stack return false and leave the
\* piece chain, the content buffers and both stacks unchanged; the process
\* lives on.
C10_EmptyStackIsHarmless ==
  [][EmptyStackCall =>
       /\ ~calls'[Len(calls')].ret
       /\ ~crashed'
       /\ UNCHANGED <<original_buffer, add_buffer, heap, pieces_head, freed,
                      memsafe_undo_stack_top, memsafe_redo_stack_top>>]_vars

\* C10 witness: an undo refused on an empty stack, then an edit that succeeds.
C10_Witness ==
  /\ NCalls >= 3
  /\ Prev.op \in {"undo", "redo"} /\ ~Prev.ret
  /\ (Prev.op = "undo" => calls[NCalls - 2].undo = <<>>)
  /\ (Prev.op = "redo" => calls[NCalls - 2].redo = <<>>)
  /\ IsEdit(Last) /\ Last.ret

\* The step is an insert, remove or replace that returned false.
FailedEdit ==
  /\ calls' # calls
  /\ IsEdit(calls'[Len(calls')])
  /\ ~calls'[Len(calls')].ret
  /\ ~crashed'

\* C11: whenever piece_table_insert, piece_table_memsafe_remove or
\* piece_table_memsafe_replace returns false, the piece chain, the ADD buffer
\* and both command stacks are what they were before the call.
C11_FailedEditChangesNothing ==
  [][FailedEdit =>
       UNCHANGED <<heap, pieces_head, add_buffer, memsafe_undo_stack_top,
                   memsafe_redo_stack_top>>]_vars

\* C12: piece_table_insert(pos, text) with a non-empty text returns true if
\* and only if pos <= the length of the document, position 0 on the empty
\* table of piece_table_new included.
C12_InsertAcceptsExactlyInRange ==
  (NCalls >= 2 /\ Last.op = "insert" /\ Last.string # <<>> /\ ~Last.crashed)
    => (Last.ret <=> Last.position <= Prev.len)

\* The step is a piece_table_insert handed the empty text.
EmptyInsert ==
  /\ calls' # calls
  /\ calls'[Len(calls')].op = "insert"
  /\ calls'[Len(calls')].string = <<>>

\* C13: piece_table_insert with an empty text returns false and adds no
\* piece, no ADD byte and no journal record.
C13_EmptyInsertRejected ==
  [][EmptyInsert =>
       /\ ~calls'[Len(calls')].ret
       /\ UNCHANGED <<heap, pieces_head, add_buffer, memsafe_undo_stack_top>>]_vars

\* C14: for every p < length, piece_table_get_char_at(p) is byte p of what
\* piece_table_to_string copies, also when p is the first byte of a piece
\* that is not the head of the chain.
C14_CharAtMatchesToString ==
  (answer.op = "get_char_at" /\ answer.position < DocLength)
    => answer.value = <<to_string_bytes(Table)[answer.position + 1]>>

\* C15: piece_table_get_char_at(p) with p >= length returns the error value
\* '\0', never a byte of a content buffer.
C15_CharAtOutOfBounds ==
  (answer.op = "get_char_at" /\ answer.position >= DocLength)
    => answer.value = <<NUL>>

\* C16: for every (p, n) with p + n <= length, piece_table_get_slice(p, n)
\* is bytes [p, p + n) of what piece_table_to_string copies, whether the range
\* lies in one piece or spans several; n = 0 gives the empty string.
C16_SliceMatchesToString ==
  (answer.op = "get_slice" /\ answer.position + answer.length <= DocLength)
    => answer.value = SubSeq(to_string_bytes(Table), answer.position + 1,
                             answer.position + answer.length)

RECURSIVE FirstNL(_, _)
\* The index of the first newline of s at or after index i, 0 if there is none.
FirstNL(s, i) == IF i > Len(s) THEN 0 ELSE IF s[i] = NL THEN i ELSE FirstNL(s, i + 1)

RECURSIVE RefLines(_)
\* The lines of a document: the runs of bytes its newlines separate.
RefLines(s) ==
  LET i == FirstNL(s, 1)
  IN  IF i = 0 THEN <<s>>
      ELSE <<SubSeq(s, 1, i - 1)>> \o RefLines(SubSeq(s, i + 1, Len(s)))

\* The document a caller of piece_table_to_string sees.
Doc == piece_table_to_string(Table)

\* C17: for every k from 1 to the number of lines, piece_table_get_line(k)
\* returns the bytes between newline k - 1 (or the start) and newline k (or
\* the end), without the newline, however the line is spread over pieces.
C17_LineMatchesToString ==
  (answer.op = "get_line" /\ answer.position <= Len(RefLines(Doc)))
    => /\ ~crashed
       /\ answer.value = RefLines(Doc)[answer.position]

\* C18: piece_table_get_line(k), k >= 1, returns NULL if and only if the
\* document has fewer than k lines (newlines plus one), the empty document
\* included.
C18_LineOutOfBounds ==
  answer.op = "get_line"
    => /\ ~crashed
       /\ (answer.value = NoString <=> answer.position > Len(RefLines(Doc)))

\* The pieces of the chain, in order.
ChainPieces == {Chain(Table)[i] : i \in 1..Len(Chain(Table))}

\* C19: after every public operation no piece of the chain has length 0,
\* except the anchor piece of an open micro-insert session.
C19_NoZeroLengthPiece ==
  \A p \in ChainPieces : heap[p].length > 0 \/ p = piece_with_micro_inserts

\* C20: every piece of the chain satisfies start_position + length <= the
\* number of content bytes of the buffer it names, so no query reads past the
\* written content.
C20_PiecesWithinBuffers ==
  \A p \in ChainPieces :
    heap[p].start_position + heap[p].length <= Len(BufferOf(Table, heap[p].buffer))


----------------------------------------------------------------------------
(* Micro-insert sessions *)

\* The call made k calls before the last one.
Back(k) == calls[NCalls - k]

\* The last four calls were a whole session: a start, two micro inserts and
\* a stop, each of which returned true.
WholeSession ==
  /\ NCalls >= 5
  /\ Back(3).op = "start_micro_inserts" /\ Back(3).ret
  /\ Back(3).position <= Back(4).len
  /\ Back(2).op = "micro_insert" /\ Back(2).ret
  /\ Back(1).op = "micro_insert" /\ Back(1).ret
  /\ Last.op = "stop_micro_inserts" /\ Last.ret

\* What piece_table_insert makes of the table the session started from,
\* given the session's position and the two texts joined.
InsertedInstead ==
  piece_table_insert(Back(4).t, Back(3).position, Back(2).string \o Back(1).string).t

\* C21: a session of start(p), micro_insert(a), micro_insert(b), stop leaves
\* the document piece_table_insert(p, a + b) leaves from the same state, and
\* the journals that insertion leaves: one more Insert record (position p,
\* text a + b) on the undo journal, and empty redo stacks.
C21_SessionIsOneInsert ==
  WholeSession =>
    /\ Last.doc = piece_table_to_string(InsertedInstead)
    /\ Last.t.memsafe_undo_stack_top = InsertedInstead.memsafe_undo_stack_top
    /\ Len(Last.t.undo_stack_top) = Len(InsertedInstead.undo_stack_top)
    /\ Last.t.redo_stack_top = <<>>
    /\ Last.t.memsafe_redo_stack_top = <<>>


\* The last call was piece_table_undo, made right after a session of a
\* start, one micro insert and a stop, each of which returned true.
UndoneSession ==
  /\ NCalls >= 5
  /\ Back(3).op = "start_micro_inserts" /\ Back(3).ret
  /\ Back(3).position <= Back(4).len
  /\ Back(2).op = "micro_insert" /\ Back(2).ret
  /\ Back(1).op = "stop_micro_inserts" /\ Back(1).ret
  /\ Last.op = "piece_table_undo"

\* C22: after a completed session one piece_table_undo returns true and
\* brings piece_table_to_string and the length back to what they were
\* before the session started.
C22_UndoRestoresPreSession ==
  UndoneSession =>
    /\ Last.ret
    /\ Last.doc = Back(4).doc
    /\ Last.len = Back(4).len


\* A session is open: piece_table_start_micro_inserts has set the anchor
\* piece and the pending record and piece_table_stop_micro_inserts has not
\* cleared them.
SessionOpen == piece_with_micro_inserts # NULL /\ undo_with_micro_inserts # <<>>

\* The step is a call of one of the edits that are not session calls.
PlainEdit ==
  /\ calls' # calls
  /\ calls'[Len(calls')].op \in
       {"insert", "remove", "replace", "piece_table_remove", "piece_table_replace"}

\* C23: while a session is open, a call of piece_table_insert,
\* piece_table_remove, piece_table_memsafe_remove, piece_table_replace or
\* piece_table_memsafe_replace returns false and changes neither the chain,
\* nor the buffers, nor the journals, nor the session.
C23_EditsRejectedInSession ==
  [][SessionOpen /\ PlainEdit =>
       /\ ~calls'[Len(calls')].ret
       /\ UNCHANGED <<heap, pieces_head, original_buffer, add_buffer, undo_stack_top,
                      redo_stack_top, memsafe_undo_stack_top, memsafe_redo_stack_top,
                      piece_with_micro_inserts, undo_with_micro_inserts>>]_vars


\* The step is a call of piece_table_start_micro_inserts.
Restart ==
  /\ calls' # calls
  /\ calls'[Len(calls')].op = "start_micro_inserts"

\* C24: piece_table_start_micro_inserts called while a session is open
\* returns false and leaves the anchor piece, the pending record and the
\* chain as they were.
C24_OneSessionAtATime ==
  [][SessionOpen /\ Restart =>
       /\ ~calls'[Len(calls')].ret
       /\ UNCHANGED <<piece_with_micro_inserts, undo_with_micro_inserts, heap,
                      pieces_head>>]_vars


\* The step is a call of piece_table_micro_insert or of
\* piece_table_stop_micro_inserts.
SessionCall ==
  /\ calls' # calls
  /\ calls'[Len(calls')].op \in {"micro_insert", "stop_micro_inserts"}

\* The step is a call of piece_table_stop_micro_inserts that returned true.
Stopped ==
  /\ calls' # calls
  /\ calls'[Len(calls')].op = "stop_micro_inserts"
  /\ calls'[Len(calls')].ret

\* C25: with no session open piece_table_micro_insert and
\* piece_table_stop_micro_inserts return false and change neither the chain,
\* nor the ADD buffer, nor a journal stack; and a
\* piece_table_stop_micro_inserts that returns true leaves no session open.
C25_NoSessionNoSessionCall ==
  [][/\ ~SessionOpen /\ SessionCall =>
          /\ ~calls'[Len(calls')].ret
          /\ UNCHANGED <<heap, pieces_head, add_buffer, undo_stack_top, redo_stack_top,
                         memsafe_undo_stack_top, memsafe_redo_stack_top>>
     /\ Stopped => ~SessionOpen']_vars

\* A micro insert was refused right after a session was stopped.
C25_Witness ==
  /\ NCalls >= 3
  /\ Back(1).op = "stop_micro_inserts" /\ Back(1).ret
  /\ Last.op = "micro_insert" /\ ~Last.ret


----------------------------------------------------------------------------
(* The pointer journal *)

\* The last call was piece_table_undo, made right after a piece_table_insert
\* or a piece_table_replace that returned true.
UndoneEdit ==
  /\ NCalls >= 3
  /\ Prev.op \in {"insert", "piece_table_replace"} /\ Prev.ret
  /\ Last.op = "piece_table_undo"

\* C26: after a piece_table_insert or a piece_table_replace that returned
\* true, one piece_table_undo returns true and piece_table_to_string is
\* what it was before that edit.
C26_UndoRevertsEdit ==
  UndoneEdit => Last.ret /\ Last.doc = Back(2).doc


\* The last call was a piece_table_remove of at least one byte, all of them
\* inside the document.
RemovedInRange ==
  /\ NCalls >= 2
  /\ Last.op = "piece_table_remove"
  /\ Last.length >= 1
  /\ Last.position + Last.length <= Prev.len

\* C27: piece_table_remove(pos, n) with n >= 1 and pos + n <= length returns
\* true and leaves the previous document without its bytes [pos, pos + n),
\* wherever the range starts and however many pieces it covers.
C27_RemoveMatchesReference ==
  RemovedInRange =>
    /\ Last.ret
    /\ Last.doc = RefRemove(Prev.doc, Last.position, Last.length)


----------------------------------------------------------------------------
(* Buffers, queries, construction *)

\* Sequence a is the beginning of sequence b.
IsPrefix(a, b) == Len(a) <= Len(b) /\ \A k \in 1..Len(a) : a[k] = b[k]

\* C28: no operation changes the ORIGINAL buffer, and the ADD buffer only
\* grows: what it held before an operation is the beginning of what it
\* holds after it.
C28_BuffersAppendOnly ==
  [][original_buffer' = original_buffer /\ IsPrefix(add_buffer, add_buffer')]_vars

\* The last call appended to an ADD buffer that already held text.
C28_Witness ==
  /\ NCalls >= 3
  /\ Prev.t.add_buffer # <<>>
  /\ Len(add_buffer) > Len(Prev.t.add_buffer)


\* The step is a query: it hands back an answer and is no edit.
QueryStep == calls' = calls /\ answer' # answer

\* C29: piece_table_get_char_at, piece_table_get_slice, piece_table_get_line,
\* piece_table_get_length and piece_table_to_string change neither the
\* chain, nor a buffer, nor a journal, nor the session, whatever their
\* arguments.
C29_QueriesArePure ==
  [][QueryStep =>
       UNCHANGED <<heap, pieces_head, original_buffer, add_buffer, undo_stack_top,
                   redo_stack_top, memsafe_undo_stack_top, memsafe_redo_stack_top,
                   piece_with_micro_inserts, undo_with_micro_inserts>>]_vars

\* A byte was asked for past the end of a document that has been edited.
C29_Witness ==
  /\ answer.op = "get_char_at"
  /\ answer.position >= DocLength
  /\ pieces_head # NULL
  /\ memsafe_undo_stack_top # <<>>


\* Nothing has been recorded and no session is open.
Pristine ==
  /\ add_buffer = <<>>
  /\ undo_stack_top = <<>> /\ redo_stack_top = <<>>
  /\ memsafe_undo_stack_top = <<>> /\ memsafe_redo_stack_top = <<>>
  /\ piece_with_micro_inserts = NULL /\ undo_with_micro_inserts = <<>>

\* C30: piece_table_from_string(s) gives a chain of exactly one ORIGINAL
\* piece (start 0, length len(s)), a document that reads s and has length
\* len(s), an empty ADD buffer, empty undo and redo stacks and no session;
\* piece_table_new() gives an empty document of length 0.
C30_Construction ==
  /\ (NCalls = 1 /\ Last.op = "from_string") =>
       /\ Chain(Table) = <<pieces_head>>
       /\ heap[pieces_head].buffer = "ORIGINAL"
       /\ heap[pieces_head].start_position = 0
       /\ heap[pieces_head].length = Len(Last.string)
       /\ original_buffer = Last.string
       /\ piece_table_to_string(Table) = Last.string
       /\ piece_table_get_length(Table) = Len(Last.string)
       /\ Pristine
  /\ (NCalls = 1 /\ Last.op = "new") =>
       /\ piece_table_to_string(Table) = <<>>
       /\ piece_table_get_length(Table) = 0
       /\ Pristine

\* A table was constructed from a string of the greatest length explored,
\* with a line break in it.
C30_Witness ==
  /\ NCalls = 1
  /\ Last.op = "from_string"
  /\ Len(Last.string) = MaxString
  /\ \E k \in 1..MaxString : Last.string[k] = NL


----------------------------------------------------------------------------
(* Splitting *)

\* The last call was split_piece_at(p, offset) with 0 < offset < p.length.
SplitInside ==
  /\ NCalls >= 2
  /\ Last.op = "split_piece_at"
  /\ 0 < Last.length
  /\ Last.length < Prev.t.heap[Last.position].length

\* C31: split_piece_at(p, offset) with 0 < offset < p.length leaves p with
\* the bytes [p.start, p.start + offset), followed by a new piece of the same
\* buffer with the bytes [p.start + offset, p.start + p.length), so that the
\* bytes of the chain are what they were.
C31_SplitKeepsDocument ==
  SplitInside =>
    LET p   == Last.position
        old == Prev.t.heap[p]
        new == Last.t.heap
        q   == new[p].next
    IN  /\ Last.ret
        /\ new[p] = [old EXCEPT !.length = Last.length, !.next = q]
        /\ q = Len(Prev.t.heap) + 1
        /\ new[q] = [old EXCEPT !.start_position = old.start_position + Last.length,
                                !.length = old.length - Last.length]
        /\ to_string_bytes(Last.t) = to_string_bytes(Prev.t)


----------------------------------------------------------------------------
(* The records of the memsafe journal *)

\* The last call was a piece_table_memsafe_remove or a
\* piece_table_memsafe_replace of bytes of the document, and returned true.
RemovedSome ==
  /\ NCalls >= 2
  /\ Last.op \in {"remove", "replace"}
  /\ Last.ret
  /\ Last.length >= 1
  /\ Last.position + Last.length <= Prev.len
  /\ Last.position + Last.length <= Len(Prev.doc)

\* The bytes [position, position + length) of doc.
Bytes(doc, position, length) == [k \in 1..length |-> doc[position + k]]

\* C32: after a piece_table_memsafe_remove(pos, n) or a
\* piece_table_memsafe_replace(pos, n, text) that returned true, the record
\* on top of the undo stack holds as removed text the n bytes the document
\* had at [pos, pos + n) before the call.
C32_RecordHoldsRemovedBytes ==
  RemovedSome =>
    /\ Last.undo # <<>>
    /\ Head(Last.undo).removed_string = Bytes(Prev.doc, Last.position, Last.length)


\* The number of bytes a step that takes text out of the document removes
\* for record op: undoing an insertion takes out the inserted text,
\* re-applying a removal the op.length bytes it removed.
Undoes(op) == IF op.type = "REMOVE" THEN 0 ELSE strlen(op.inserted_string)
Redoes(op) == IF op.type = "INSERT" THEN 0 ELSE op.length

\* Record op, of which a step takes n bytes out, fits the chain: its
\* position resolves to a piece and the n bytes lie inside the document.
Applicable(op, n) ==
  /\ Resolve(heap, pieces_head, op.start_position).p # NULL
  /\ op.start_position + n <= DocLength

\* C33: in every state the record on top of the undo stack can be inverted
\* and the record on top of the redo stack re-applied against the chain as
\* it is: the position resolves to a piece and the bytes to take out lie
\* inside the document.
C33_TopRecordsApplicable ==
  ~crashed =>
    /\ memsafe_undo_stack_top # <<>> =>
         Applicable(Head(memsafe_undo_stack_top), Undoes(Head(memsafe_undo_stack_top)))
    /\ memsafe_redo_stack_top # <<>> =>
         Applicable(Head(memsafe_redo_stack_top), Redoes(Head(memsafe_redo_stack_top)))


\* The step is a piece_table_memsafe_undo (a piece_table_memsafe_redo) on a
\* stack that is not empty, whose inverse (forward) edit returned false.
UndoNotApplied ==
  /\ calls' # calls
  /\ calls'[Len(calls')].op = "undo"
  /\ memsafe_undo_stack_top # <<>>
  /\ ~UndoApply(Table).t.crashed /\ ~UndoApply(Table).ret
RedoNotApplied ==
  /\ calls' # calls
  /\ calls'[Len(calls')].op = "redo"
  /\ memsafe_redo_stack_top # <<>>
  /\ ~RedoApply(Table).t.crashed /\ ~RedoApply(Table).ret

\* C34: when the inverse edit of piece_table_memsafe_undo, or the forward
\* edit of piece_table_memsafe_redo, fails, the call returns false, the
\* record stays on its stack and the document is what it was.
C34_FailedStepKeepsRecord ==
  [][UndoNotApplied \/ RedoNotApplied =>
       /\ ~calls'[Len(calls')].ret
       /\ UNCHANGED <<memsafe_undo_stack_top, memsafe_redo_stack_top>>
       /\ calls'[Len(calls')].doc = calls[Len(calls)].doc]_vars


\* The payloads the inverse edit of record op reads: memsafe_undo_insert
\* reads inserted_string, memsafe_undo_remove reads removed_string,
\* memsafe_undo_replace calls both.
ReadByUndo(op) ==
  IF op.type = "INSERT" THEN {op.inserted_string}
  ELSE IF op.type = "REMOVE" THEN {op.removed_string}
  ELSE {op.inserted_string, op.removed_string}

\* The payloads the forward edit of record op reads: memsafe_redo_insert is
\* memsafe_undo_remove, memsafe_redo_remove is memsafe_undo_insert,
\* memsafe_redo_replace calls both.
ReadByRedo(op) ==
  IF op.type = "INSERT" THEN {op.removed_string}
  ELSE IF op.type = "REMOVE" THEN {op.inserted_string}
  ELSE {op.inserted_string, op.removed_string}

\* The step is a piece_table_memsafe_undo (piece_table_memsafe_redo) that
\* finds a record on its stack.
UndoStep ==
  calls' # calls /\ calls'[Len(calls')].op = "undo" /\ memsafe_undo_stack_top # <<>>
RedoStep ==
  calls' # calls /\ calls'[Len(calls')].op = "redo" /\ memsafe_redo_stack_top # <<>>

\* C35: no undo step and no redo step reads a payload that its record does
\* not carry.
C35_PayloadsReadAreCarried ==
  [][/\ UndoStep => NoString \notin ReadByUndo(Head(memsafe_undo_stack_top))
     /\ RedoStep => NoString \notin ReadByRedo(Head(memsafe_redo_stack_top))]_vars


----------------------------------------------------------------------------
(* Pieces and the records that name them *)

\* The pieces the records of stack name.
NamedBy(stack) ==
  UNION {{stack[k].prev_piece, stack[k].start_piece, stack[k].end_piece,
          stack[k].next_piece} : k \in 1..Len(stack)} \ {NULL}

\* The pieces named by a record of the pointer journal or by the pending
\* record of a session.
Recorded ==
  NamedBy(undo_stack_top) \cup NamedBy(redo_stack_top) \cup NamedBy(undo_with_micro_inserts)

\* C36: no piece is at once linked in the chain and named by a record on
\* the undo stack, on the redo stack or pending in a session.
C36_OneOwner == ChainPieces \cap Recorded = {}


\* C37: no piece named by a record of the pointer journal, or by the pending
\* record of a session, has been freed: piece_table_undo and
\* piece_table_redo follow references to live pieces only.
C37_RecordedPiecesAreLive == Recorded \cap freed = {}


----------------------------------------------------------------------------
(* The anchor of a session *)

\* The step is a piece_table_start_micro_inserts that returned true.
Started ==
  /\ calls' # calls
  /\ calls'[Len(calls')].op = "start_micro_inserts"
  /\ calls'[Len(calls')].ret

\* The number of bytes the chain of t holds before piece a.
BytesBefore(t, a) ==
  LET c == Chain(t)
      k == CHOOSE k \in 1..Len(c) : c[k] = a
  IN  SumLengths(t.heap, SubSeq(c, 1, k - 1))

\* Piece a of t is a new, empty ADD piece that stands in the chain after
\* position bytes.
AnchoredAt(t, a, position) ==
  /\ a \notin DOMAIN heap
  /\ a \in PiecesOf(t)
  /\ t.heap[a].buffer = "ADD"
  /\ t.heap[a].length = 0
  /\ BytesBefore(t, a) = position

\* C38: a piece_table_start_micro_inserts(pos) that returns true changes
\* neither piece_table_to_string, nor piece_table_get_length, nor the ADD
\* buffer, nor a journal stack; it opens the session and puts one new
\* zero-length ADD piece, the anchor, at position pos of the chain.
C38_StartOnlyAnchors ==
  [][Started =>
       /\ calls'[Len(calls')].doc = calls[Len(calls)].doc
       /\ calls'[Len(calls')].len = calls[Len(calls)].len
       /\ UNCHANGED <<add_buffer, undo_stack_top, redo_stack_top,
                      memsafe_undo_stack_top, memsafe_redo_stack_top>>
       /\ SessionOpen'
       /\ AnchoredAt(calls'[Len(calls')].t, piece_with_micro_inserts',
                     calls'[Len(calls')].position)]_vars


\* The length of the ADD buffer when the session in history h was started:
\* piece_table_start_micro_inserts leaves the ADD buffer as it finds it.
AddAtStart(h) ==
  LET k == CHOOSE k \in 1..Len(h) :
             /\ h[k].op = "start_micro_inserts" /\ h[k].ret
             /\ \A j \in (k + 1)..Len(h) : ~(h[j].op = "start_micro_inserts" /\ h[j].ret)
  IN  Len(h[k].t.add_buffer)

\* The step is a piece_table_micro_insert that returned true.
MicroInserted ==
  /\ calls' # calls
  /\ calls'[Len(calls')].op = "micro_insert"
  /\ calls'[Len(calls')].ret

\* C39: while a session is open the anchor spans the bytes appended to ADD
\* since the session began (it starts at the ADD length of the session's
\* start and ends at the current ADD length), and a
\* piece_table_micro_insert(text) lengthens the anchor by len(text) and
\* changes no other piece and no journal stack.
C39_AnchorSpansSessionBytes ==
  [][/\ (calls' # calls /\ SessionOpen' /\ ~crashed') =>
          /\ heap'[piece_with_micro_inserts'].start_position = AddAtStart(calls')
          /\ heap'[piece_with_micro_inserts'].start_position
               + heap'[piece_with_micro_inserts'].length = Len(add_buffer')
     /\ MicroInserted =>
          /\ heap' = [heap EXCEPT ![piece_with_micro_inserts].length =
                                    @ + Len(calls'[Len(calls')].string)]
          /\ UNCHANGED <<pieces_head, undo_stack_top, redo_stack_top,
                         memsafe_undo_stack_top, memsafe_redo_stack_top>>]_vars

====
